---- MODULE Spec2Model ----
(***************************************************************************)
(* A model of the ML research assistant: the paper model, the ML paper     *)
(* processor (relevance, clustering, confidence, ranking), the consensus   *)
(* aggregation of the summarization service, the search handler of the     *)
(* research assistant, its chat and similar-paper calls, the rate limit of *)
(* the Semantic Scholar client and the session log of the data manager.    *)
(*                                                                         *)
(* Numbers.  Python floats are modelled in fixed point: a score s in [0,1] *)
(* is the integer 1000*s (thousandths).  The inputs are chosen on a grid   *)
(* on which every product, sum and mean of the code is exact, with two     *)
(* exceptions that round to the nearest grid value as the float operation  *)
(* rounds to the nearest float: the mean of the four confidence factors    *)
(* when the similarity is the value just above 1.0, and tanh.  Quotients   *)
(* (the positive percentage, the average confidence) are kept as exact     *)
(* fractions [num, den].                                                   *)
(***************************************************************************)
EXTENDS Integers, Sequences, FiniteSets

VARIABLES
    pc,                   \* position of the caller: which call returned last
    given,                \* the list given to the last call, as it was given
    papers,               \* the list object given to the last call, as mutated
    paper_vectors,        \* MLPaperProcessor.paper_vectors
    papers_data,          \* MLPaperProcessor.papers_data
    lib_calls,            \* arguments of the sklearn calls of the last process_papers
    positive_percentage,  \* local of generate_ml_consensus (a fraction, in percent)
    avg_confidence,       \* local of generate_ml_consensus (a fraction, thousandths)
    consensus_meter,      \* value returned by the last generate_ml_consensus
    results,              \* value returned by the last search_and_analyze_ml
    current_papers,       \* MLResearchAssistant.current_papers
    current_summaries,    \* MLResearchAssistant.current_summaries
    chatbot,              \* MLResearchAssistant.chatbot
    searches,             \* DataManager.session_data['searches']
    caught,               \* which except branches ran in the last call
    request,              \* the last search: its question and what became of its HTTP request
    shown,                \* the st.error / st.warning / st.success of the last search
    search_calls,         \* how many times search_and_analyze_ml was called
    weighted_scores,      \* locals of generate_ml_consensus: sentiment_score of each paper, positive_scores, negative_scores
    earlier,              \* the earlier run of process_papers: sklearn's answers, the list returned
    now,                  \* time.time(), in tenths of a second
    last_request_time,    \* SemanticScholarAPI.last_request_time
    sent,                 \* the times at which session.get was called, oldest first
    similar_papers,       \* what the last find_similar_papers returned or raised
    chat_reply,           \* what the last chat_with_research returned
    chat_history,         \* ChatbotService.chat_history
    stats                 \* what the last get_session_stats returned

vars == <<pc, given, papers, paper_vectors, papers_data, lib_calls, positive_percentage,
          avg_confidence, consensus_meter, results, current_papers,
          current_summaries, chatbot, searches, caught, request, shown, search_calls,
          weighted_scores, earlier, now, last_request_time, sent, similar_papers,
          chat_reply, chat_history, stats>>

-----------------------------------------------------------------------------
(* Bounds of the model *)

\* Longest fetched list whose papers and similarities are chosen freely.
MaxPapers == 2

\* Longest fetched list at all; the lists longer than MaxPapers hold copies
\* of one paper and reach the clustering branch.
MaxCorpus == 5

-----------------------------------------------------------------------------
(* Fixed point *)

\* 1.0 in thousandths.
One == 10 * 100

\* A float just above 1.0 (1.0000000000000002): what cosine_similarity
\* returns for some parallel vectors.
AboveOne == One + 1

Min(a, b) == IF a <= b THEN a ELSE b

Max(a, b) == IF a >= b THEN a ELSE b

\* a / b rounded to the nearest integer, for a >= 0 and b > 0.
RoundDiv(a, b) == (2 * a + b) \div (2 * b)

Range(s) == {s[i] : i \in DOMAIN s}

RECURSIVE SumSeq(_)
SumSeq(s) == IF s = <<>> THEN 0 ELSE Head(s) + SumSeq(Tail(s))

\* The fraction num/den.
Frac(num, den) == [num |-> num, den |-> den]

FracGE(f, k) == f.num >= k * f.den

FracLE(f, k) == f.num <= k * f.den

FracGT(f, k) == f.num > k * f.den

-----------------------------------------------------------------------------
(* config/settings.py *)

MAX_CLUSTERS == 3

MIN_PAPERS_FOR_CLUSTERING == 4

\* 0.7
HIGH_CONFIDENCE_THRESHOLD == 700

\* 0.5
MEDIUM_CONFIDENCE_THRESHOLD == 500

RECENT_YEAR_THRESHOLD == 2020

STRONG_POSITIVE_THRESHOLD == 70

MODERATE_POSITIVE_THRESHOLD == 55

MODERATE_NEGATIVE_THRESHOLD == 45

STRONG_NEGATIVE_THRESHOLD == 30

POSITIVE_INDICATORS ==
    {"effective", "improves", "increases", "beneficial", "positive",
     "significantly", "reduces", "decreases", "prevents", "enhances", "better",
     "successful", "improvement", "correlation", "associated with", "leads to"}

NEGATIVE_INDICATORS ==
    {"ineffective", "no effect", "no difference", "harmful", "negative",
     "worse", "fails", "unsuccessful", "no significant", "not significant",
     "no improvement", "no correlation", "unrelated"}

-----------------------------------------------------------------------------
(* models/paper.py *)

\* Python's None where an int is expected: the API's JSON null for
\* citationCount is passed on as it is (paper_data.get('citationCount', 0)).
NoneValue == -1

\* max(0.0, min(1.0, x))
Clamp01(x) == Max(0, Min(One, x))

\* Paper.__post_init__: the two scores are clamped when the paper is built.
PostInit(p) ==
    [p EXCEPT !.ml_relevance_score = Clamp01(p.ml_relevance_score),
              !.ml_summary_confidence = Clamp01(p.ml_summary_confidence)]

\* Paper(...) as _parse_paper_data builds it: the ML fields take the
\* defaults 0.0, -1, 0.0.  paper_id is the paper's place in the fetched list.
\* An abstract is its length and the indicator phrases written in it.
Paper(id, rec) ==
    PostInit([paper_id |-> id,
              title |-> rec.title,
              year |-> rec.year,
              abstract |-> rec.abstract,
              citation_count |-> rec.citation_count,
              ml_relevance_score |-> 0,
              ml_cluster |-> -1,
              ml_summary_confidence |-> 0])

-----------------------------------------------------------------------------
(* The fetch collaborator's answers and sklearn's answers *)

\* Bibliographic records the fetch can return.  The last one carries the
\* JSON null of a missing citation count.
Library ==
    {[title |-> "meta_analysis", year |-> 2021, citation_count |-> 200,
      abstract |-> [len |-> 150, mentions |-> {"effective"}]],
     [title |-> "short_note", year |-> 0, citation_count |-> 0,
      abstract |-> [len |-> 50, mentions |-> {}]],
     [title |-> "pilot_study", year |-> 2021, citation_count |-> 0,
      abstract |-> [len |-> 150, mentions |-> {"effective"}]],
     [title |-> "negative_trial", year |-> 2010, citation_count |-> 50,
      abstract |-> [len |-> 150, mentions |-> {"harmful"}]],
     [title |-> "null_citations", year |-> 2021, citation_count |-> NoneValue,
      abstract |-> [len |-> 150, mentions |-> {"effective"}]]}

\* The record the long lists repeat.
BulkRecord ==
    [title |-> "bulk", year |-> 2021, citation_count |-> 50,
     abstract |-> [len |-> 150, mentions |-> {"improves"}]]

\* The lists search_papers can return: Paper objects in the API's order.
FetchedLists ==
    {[i \in DOMAIN recs |-> Paper(i, recs[i])] :
        recs \in UNION {[1..n -> Library] : n \in 0..MaxPapers}}
    \cup {[i \in 1..n |-> Paper(i, BulkRecord)] : n \in (MaxPapers + 1)..MaxCorpus}

\* What cosine_similarity can return for one document: TF-IDF vectors are
\* non-negative, so the value is in [0, 1] up to float rounding, which for
\* parallel vectors can end just above 1.0.
SimilarityValues == {0, 500, 800, One, AboveOne}

\* What cosine_similarity can return for n documents.  For the long lists:
\* all documents equally similar, or each more similar than the one before.
Similarities(n) ==
    IF n <= MaxPapers THEN [1..n -> SimilarityValues]
    ELSE {[i \in 1..n |-> One \div 2], [i \in 1..n |-> 100 * i]}

\* What KMeans(n_clusters).fit_predict can return for the given rows: one
\* label in 0..n_clusters-1 for each row.
KMeansLabels(rows, n_clusters) == [1..Len(rows) -> 0..(n_clusters - 1)]

-----------------------------------------------------------------------------
(* services/ml_processor.py *)

\* A row of the TF-IDF matrix: the text it was computed from.
DocRow(p) == [kind |-> "doc", id |-> p.paper_id]

QueryRow == [kind |-> "query", id |-> 0]

\* paper_texts: one text for each paper, then the query.
PaperTexts(ps) == [i \in 1..Len(ps) |-> DocRow(ps[i])] \o <<QueryRow>>

\* self.paper_vectors[:-1]
AllButLast(rows) == SubSeq(rows, 1, Len(rows) - 1)

\* The rows given to KMeans.
KMeansInput(paper_vectors_only) == paper_vectors_only

\* The mutant of ClusteringApplies: the threshold itself already clusters.
ClusteringAppliesAtLeast(n) == n >= MIN_PAPERS_FOR_CLUSTERING

\* len(papers) > MIN_PAPERS_FOR_CLUSTERING
ClusteringApplies(n) == n > MIN_PAPERS_FOR_CLUSTERING

\* The mutant of NClusters: max for min.
NClustersMax(n) == Max(MAX_CLUSTERS, n)

\* n_clusters = min(MAX_CLUSTERS, len(papers))
NClusters(n) == Min(MAX_CLUSTERS, n)

\* np.zeros(len(papers))
ZeroClusters(n) == [i \in 1..n |-> 0]

\* min(paper.citation_count / 100, 1.0); None / 100 raises TypeError.
CitationRaises(p) == p.citation_count = NoneValue

\* The mutant of CitationFactor: the cap at 1.0 is missing.
CitationFactorUncapped(p) == p.citation_count * 10

CitationFactor(p) == Min(p.citation_count * 10, One)

\* 1.0 if paper.abstract and len(paper.abstract) > 100 else 0.5
AbstractFactor(p) ==
    IF p.abstract.len > 0 /\ p.abstract.len > 100 THEN One ELSE One \div 2

\* 1.0 if paper.year >= 2015 else 0.7
RecencyFactor(p) == IF p.year >= 2015 THEN One ELSE (7 * One) \div 10

\* np.mean(confidence_factors)
ConfidenceOf(p, similarity) ==
    RoundDiv(similarity + CitationFactor(p) + AbstractFactor(p) + RecencyFactor(p), 4)

\* The value stored as paper.ml_relevance_score.
StoredRelevance(similarity) == similarity

\* The loop over enumerate(papers), from index i: it stops at the first
\* paper whose confidence raises, with the fields set so far left set.
RECURSIVE UpdatePapers(_, _, _, _)
UpdatePapers(ps, similarities, clusters, i) ==
    IF i > Len(ps) THEN [papers |-> ps, raised |-> FALSE]
    ELSE LET p1 == [ps[i] EXCEPT !.ml_relevance_score = StoredRelevance(similarities[i]),
                                 !.ml_cluster = clusters[i]]
         IN  IF CitationRaises(p1)
             THEN [papers |-> [ps EXCEPT ![i] = p1], raised |-> TRUE]
             ELSE UpdatePapers(
                    [ps EXCEPT ![i] = [p1 EXCEPT !.ml_summary_confidence =
                                                    ConfidenceOf(p1, similarities[i])]],
                    similarities, clusters, i + 1)

\* The mutant of KeepsBefore: ties are turned around.
KeepsBeforeStrict(a, b) == a.ml_relevance_score > b.ml_relevance_score

\* papers.sort(key=..., reverse=True): an element a already placed stays
\* before a later element b unless b's key is greater (the sort is stable).
KeepsBefore(a, b) == a.ml_relevance_score >= b.ml_relevance_score

RECURSIVE InsertRanked(_, _)
InsertRanked(sorted, p) ==
    IF sorted = <<>> THEN <<p>>
    ELSE IF KeepsBefore(Head(sorted), p)
         THEN <<Head(sorted)>> \o InsertRanked(Tail(sorted), p)
         ELSE <<p>> \o sorted

RECURSIVE SortFrom(_, _)
SortFrom(sorted, rest) ==
    IF rest = <<>> THEN sorted
    ELSE SortFrom(InsertRanked(sorted, Head(rest)), Tail(rest))

SortByRelevance(ps) == SortFrom(<<>>, ps)

\* A mutant of DefaultScores: the missing citation count is replaced by 0.
DefaultScoresZeroCitations(ps) ==
    [i \in 1..Len(ps) |-> [ps[i] EXCEPT !.ml_relevance_score = One \div 2,
                                        !.ml_cluster = 0,
                                        !.ml_summary_confidence = One \div 2,
                                        !.citation_count = Max(0, @)]]

\* The mutant of DefaultScores: the cluster is not reset.
DefaultScoresKeepCluster(ps) ==
    [i \in 1..Len(ps) |-> [ps[i] EXCEPT !.ml_relevance_score = One \div 2,
                                        !.ml_summary_confidence = One \div 2]]

\* The except branch: every paper gets the default scores, the order stays.
DefaultScores(ps) ==
    [i \in 1..Len(ps) |-> [ps[i] EXCEPT !.ml_relevance_score = One \div 2,
                                        !.ml_cluster = 0,
                                        !.ml_summary_confidence = One \div 2]]

NoLibCalls == [fit_transform |-> <<>>, cosine_similarity |-> <<>>,
               kmeans |-> <<>>, n_clusters |-> 0]

\* The answers of sklearn for one call of process_papers on ps: whether
\* fit_transform succeeds (it raises ValueError on an empty vocabulary), the
\* similarities, and, when clustering applies, whether fit_predict succeeds
\* and the KMeans labels.
Environments(ps) ==
    LET n == Len(ps)
        rows == KMeansInput(AllButLast(PaperTexts(ps)))
    IN  {[vectorizer_ok |-> FALSE, kmeans_ok |-> TRUE,
          similarities |-> <<>>, labels |-> <<>>]}
        \cup (IF ClusteringApplies(n)
              THEN {[vectorizer_ok |-> TRUE, kmeans_ok |-> FALSE,
                     similarities |-> s, labels |-> <<>>] : s \in Similarities(n)}
              ELSE {})
        \cup {[vectorizer_ok |-> TRUE, kmeans_ok |-> TRUE,
               similarities |-> s, labels |-> l] :
                s \in Similarities(n),
                l \in IF ClusteringApplies(n)
                      THEN KMeansLabels(rows, NClusters(n))
                      ELSE {<<>>}}

\* The mutant of NoPapers: the empty list is processed like any other.
NoPapersNever(ps) == FALSE

\* not papers
NoPapers(ps) == ps = <<>>

\* MLPaperProcessor.process_papers(papers, query) with the processor's
\* fields self and sklearn's answers env: the returned list, the processor's
\* fields afterwards, the sklearn calls made, and whether the except branch ran.
process_papers(ps, env, self) ==
    IF NoPapers(ps)
    THEN [papers |-> ps, paper_vectors |-> self.paper_vectors,
          papers_data |-> self.papers_data, lib_calls |-> NoLibCalls,
          fallback |-> FALSE]
    ELSE IF ~env.vectorizer_ok
    THEN [papers |-> DefaultScores(ps), paper_vectors |-> self.paper_vectors,
          papers_data |-> self.papers_data,
          lib_calls |-> [NoLibCalls EXCEPT !.fit_transform = PaperTexts(ps)],
          fallback |-> TRUE]
    ELSE LET n == Len(ps)
             vectors == PaperTexts(ps)
             paper_vectors_only == AllButLast(vectors)
             clusters == IF ClusteringApplies(n) THEN env.labels ELSE ZeroClusters(n)
             calls == [fit_transform |-> PaperTexts(ps),
                       cosine_similarity |-> paper_vectors_only,
                       kmeans |-> IF ClusteringApplies(n)
                                  THEN KMeansInput(paper_vectors_only) ELSE <<>>,
                       n_clusters |-> IF ClusteringApplies(n) THEN NClusters(n) ELSE 0]
             updated == UpdatePapers(ps, env.similarities, clusters, 1)
             ranked == SortByRelevance(updated.papers)
             new_vectors == [is_none |-> FALSE, rows |-> vectors]
         IN  IF ClusteringApplies(n) /\ ~env.kmeans_ok
             THEN [papers |-> DefaultScores(ps),
                   paper_vectors |-> new_vectors,
                   papers_data |-> self.papers_data,
                   lib_calls |-> calls, fallback |-> TRUE]
             ELSE IF updated.raised
             THEN [papers |-> DefaultScores(updated.papers),
                   paper_vectors |-> new_vectors,
                   papers_data |-> self.papers_data,
                   lib_calls |-> calls, fallback |-> TRUE]
             ELSE [papers |-> ranked, paper_vectors |-> new_vectors,
                   papers_data |-> ranked, lib_calls |-> calls,
                   fallback |-> FALSE]

-----------------------------------------------------------------------------
(* services/summarization_service.py: generate_ml_consensus *)

\* The indicator pairs <<a, b>> with a a proper substring of b.
Inside ==
    {<<"effective", "ineffective">>, <<"successful", "unsuccessful">>,
     <<"improvement", "no improvement">>, <<"correlation", "no correlation">>}

\* indicator in abstract_lower: the phrase is written in the abstract, or a
\* phrase that holds it as a substring is.
Occurs(indicator, abstract) ==
    \E m \in abstract.mentions : indicator = m \/ <<indicator, m>> \in Inside

\* sum(2 if indicator in abstract_lower else 0 for indicator in ...)
IndicatorScore(indicators, abstract) ==
    2 * Cardinality({ind \in indicators : Occurs(ind, abstract)})

\* 1000 * tanh(k / 100) rounded, for k = 0..414, at index k + 1: the values
\* that round below 1.
TanhTable ==
    <<
      0, 10, 20, 30, 40, 50, 60, 70, 80, 90, 100, 110, 119, 129,
      139, 149, 159, 168, 178, 188, 197, 207, 217, 226, 235, 245, 254, 264,
      273, 282, 291, 300, 310, 319, 327, 336, 345, 354, 363, 371, 380, 388,
      397, 405, 414, 422, 430, 438, 446, 454, 462, 470, 478, 485, 493, 501,
      508, 515, 523, 530, 537, 544, 551, 558, 565, 572, 578, 585, 592, 598,
      604, 611, 617, 623, 629, 635, 641, 647, 653, 658, 664, 670, 675, 680,
      686, 691, 696, 701, 706, 711, 716, 721, 726, 731, 735, 740, 744, 749,
      753, 757, 762, 766, 770, 774, 778, 782, 786, 789, 793, 797, 800, 804,
      808, 811, 814, 818, 821, 824, 827, 831, 834, 837, 840, 843, 845, 848,
      851, 854, 856, 859, 862, 864, 867, 869, 872, 874, 876, 879, 881, 883,
      885, 887, 890, 892, 894, 896, 898, 900, 901, 903, 905, 907, 909, 910,
      912, 914, 915, 917, 919, 920, 922, 923, 925, 926, 927, 929, 930, 932,
      933, 934, 935, 937, 938, 939, 940, 941, 943, 944, 945, 946, 947, 948,
      949, 950, 951, 952, 953, 954, 954, 955, 956, 957, 958, 959, 960, 960,
      961, 962, 963, 963, 964, 965, 965, 966, 967, 967, 968, 969, 969, 970,
      970, 971, 972, 972, 973, 973, 974, 974, 975, 975, 976, 976, 977, 977,
      978, 978, 978, 979, 979, 980, 980, 980, 981, 981, 982, 982, 982, 983,
      983, 983, 984, 984, 984, 985, 985, 985, 986, 986, 986, 986, 987, 987,
      987, 987, 988, 988, 988, 988, 989, 989, 989, 989, 989, 990, 990, 990,
      990, 990, 991, 991, 991, 991, 991, 992, 992, 992, 992, 992, 992, 992,
      993, 993, 993, 993, 993, 993, 993, 994, 994, 994, 994, 994, 994, 994,
      994, 995, 995, 995, 995, 995, 995, 995, 995, 995, 995, 996, 996, 996,
      996, 996, 996, 996, 996, 996, 996, 996, 996, 996, 997, 997, 997, 997,
      997, 997, 997, 997, 997, 997, 997, 997, 997, 997, 997, 997, 997, 998,
      998, 998, 998, 998, 998, 998, 998, 998, 998, 998, 998, 998, 998, 998,
      998, 998, 998, 998, 998, 998, 998, 998, 998, 998, 999, 999, 999, 999,
      999, 999, 999, 999, 999, 999, 999, 999, 999, 999, 999, 999, 999, 999,
      999, 999, 999, 999, 999, 999, 999, 999, 999, 999, 999, 999, 999, 999,
      999, 999, 999, 999, 999, 999, 999, 999, 999, 999, 999, 999, 999, 999,
      999, 999, 999, 999, 999, 999, 999, 999, 999
    >>

\* The least x, in hundredths, where np.tanh(x) is 1.0 in double precision.
TanhIsOne == 1907

\* np.tanh(x) for x >= 0 in hundredths, in thousandths: beyond the table the
\* value is below 1.0 up to TanhIsOne, shown as the largest value below One.
TanhOfPositive(x) ==
    IF x < Len(TanhTable) THEN TanhTable[x + 1]
    ELSE IF x < TanhIsOne THEN One - 1
    ELSE One

\* np.tanh(x) for x in hundredths, in thousandths; tanh is odd.
Tanh(x) == IF x >= 0 THEN TanhOfPositive(x) ELSE -TanhOfPositive(-x)

\* a / b rounded to the nearest integer, for b > 0 and any sign of a.
RoundDivSigned(a, b) == IF a >= 0 THEN RoundDiv(a, b) ELSE -RoundDiv(-a, b)

\* The mutant of NetPolarity: the two counters are swapped.
NetPolarityReversed(p) ==
    IndicatorScore(NEGATIVE_INDICATORS, p.abstract)
    - IndicatorScore(POSITIVE_INDICATORS, p.abstract)

\* positive_score - negative_score
NetPolarity(p) ==
    IndicatorScore(POSITIVE_INDICATORS, p.abstract)
    - IndicatorScore(NEGATIVE_INDICATORS, p.abstract)

\* The mutant of FinalScoreTenth: the relevance does not weigh in.
FinalScoreTenthNoRelevance(p) ==
    RoundDivSigned(NetPolarity(p) * (One + CitationFactor(p)), 100)

\* final_score / 10 in hundredths, with
\* final_score = (positive_score - negative_score) * relevance_boost * (1 + citation_boost)
FinalScoreTenth(p) ==
    RoundDivSigned(NetPolarity(p) * p.ml_relevance_score * (One + CitationFactor(p)),
                   One * 100)

\* _ml_sentiment_analysis(paper, research_question), in thousandths; it
\* raises where CitationRaises(paper).
ml_sentiment_analysis(p) == Tanh(FinalScoreTenth(p))

\* The mutant of IsPositive: 0.1 itself counts as positive.
IsPositiveInclusive(sentiment) == sentiment >= One \div 10

\* sentiment_score > 0.1
IsPositive(sentiment) == sentiment > One \div 10

\* sentiment_score < -0.1
IsNegative(sentiment) == sentiment < -(One \div 10)

\* The entries of positive_scores: sentiment_score * confidence_weight.
PositiveScores(ps) ==
    [i \in 1..Len(ps) |->
        IF IsPositive(ml_sentiment_analysis(ps[i]))
        THEN ml_sentiment_analysis(ps[i]) * ps[i].ml_summary_confidence ELSE 0]

\* The entries of negative_scores: abs(sentiment_score) * confidence_weight.
NegativeScores(ps) ==
    [i \in 1..Len(ps) |->
        IF ~IsPositive(ml_sentiment_analysis(ps[i]))
           /\ IsNegative(ml_sentiment_analysis(ps[i]))
        THEN (-ml_sentiment_analysis(ps[i])) * ps[i].ml_summary_confidence ELSE 0]

\* A mutant of PositivePercentage: the share of the negative bucket.
PositivePercentageOfNegative(total_weighted_positive, total_weighted_negative) ==
    LET total_weight == total_weighted_positive + total_weighted_negative
    IN  IF total_weight > 0
        THEN Frac(total_weighted_negative * 100, total_weight)
        ELSE Frac(50, 1)

\* The mutant of PositivePercentage: no evidence counts as 0 percent.
PositivePercentageZero(total_weighted_positive, total_weighted_negative) ==
    LET total_weight == total_weighted_positive + total_weighted_negative
    IN  IF total_weight > 0
        THEN Frac(total_weighted_positive * 100, total_weight)
        ELSE Frac(0, 1)

\* positive_percentage, a fraction in percent.
PositivePercentage(total_weighted_positive, total_weighted_negative) ==
    LET total_weight == total_weighted_positive + total_weighted_negative
    IN  IF total_weight > 0
        THEN Frac(total_weighted_positive * 100, total_weight)
        ELSE Frac(50, 1)

\* np.mean([p.ml_summary_confidence for p in papers]), a fraction in thousandths.
AvgConfidence(ps) ==
    Frac(SumSeq([i \in 1..Len(ps) |-> ps[i].ml_summary_confidence]), Len(ps))

\* The mutant of StrongGate: the 0.1 is not subtracted.
StrongGateUnshifted == HIGH_CONFIDENCE_THRESHOLD

\* HIGH_CONFIDENCE_THRESHOLD - 0.1 (0.7 - 0.1 is the float 0.6)
StrongGate == HIGH_CONFIDENCE_THRESHOLD - One \div 10

\* The if/elif chain that determines the consensus.
Consensus(pct, conf) ==
    IF FracGE(pct, STRONG_POSITIVE_THRESHOLD) /\ FracGT(conf, StrongGate)
    THEN "strong_positive"
    ELSE IF FracGE(pct, MODERATE_POSITIVE_THRESHOLD)
            /\ FracGT(conf, MEDIUM_CONFIDENCE_THRESHOLD)
    THEN "moderate_positive"
    ELSE IF FracLE(pct, STRONG_NEGATIVE_THRESHOLD) /\ FracGT(conf, StrongGate)
    THEN "strong_negative"
    ELSE IF FracLE(pct, MODERATE_NEGATIVE_THRESHOLD)
            /\ FracGT(conf, MEDIUM_CONFIDENCE_THRESHOLD)
    THEN "moderate_negative"
    ELSE "mixed"

\* round(f, digits) of a non-negative fraction, in units of 1/scale.
RoundFrac(f, scale) ==
    (f.num \div f.den) * scale + RoundDiv((f.num % f.den) * scale, f.den)

\* len([p for p in papers if p.ml_summary_confidence > HIGH_CONFIDENCE_THRESHOLD])
HighConfidenceCount(ps) ==
    Cardinality({i \in 1..Len(ps) : ps[i].ml_summary_confidence > HIGH_CONFIDENCE_THRESHOLD})

\* np.mean([p.ml_relevance_score for p in papers])
AvgRelevance(ps) ==
    Frac(SumSeq([i \in 1..Len(ps) |-> ps[i].ml_relevance_score]), Len(ps))

RecentCount(ps) ==
    Cardinality({i \in 1..Len(ps) : ps[i].year >= RECENT_YEAR_THRESHOLD})

\* _generate_ml_explanation: which sentence the text holds and which of the
\* two optional sentences follow it.
generate_ml_explanation(ps, positive_pct, confidence) ==
    [says |-> IF FracGE(positive_pct, STRONG_POSITIVE_THRESHOLD) THEN "positive evidence"
              ELSE IF FracLE(positive_pct, STRONG_NEGATIVE_THRESHOLD) THEN "negative evidence"
              ELSE "mixed results",
     high_confidence_note |-> HighConfidenceCount(ps) * 10 > Len(ps) * 6,
     relevance_note |-> FracGT(AvgRelevance(ps), 600)]

NoExplanation ==
    [says |-> "", high_confidence_note |-> FALSE, relevance_note |-> FALSE]

\* {} as the value of ml_insights.
EmptyInsights ==
    [empty |-> TRUE, avg_relevance_score |-> Frac(0, 1), high_confidence_papers |-> 0,
     recent_papers_ratio |-> Frac(0, 1), avg_citation_impact |-> Frac(0, 1)]

\* The mutant of DegradedConsensus: the neutral confidence 0.5 for 0.0.
DegradedConsensusHalf(verdict) ==
    [keys |-> {"consensus", "confidence", "ml_insights"},
     consensus |-> verdict, confidence |-> 50, percentage |-> 0, total_papers |-> 0,
     explanation |-> NoExplanation, ml_insights |-> EmptyInsights]

\* {"consensus": verdict, "confidence": 0.0, "ml_insights": {}}
DegradedConsensus(verdict) ==
    [keys |-> {"consensus", "confidence", "ml_insights"},
     consensus |-> verdict, confidence |-> 0, percentage |-> 0, total_papers |-> 0,
     explanation |-> NoExplanation, ml_insights |-> EmptyInsights]

\* The value generate_ml_consensus was not called yet.
NoFrac == Frac(0, 1)

\* positive_scores = [] and negative_scores = [], no sentiment_score yet
NoScores == [sentiment_score |-> <<>>, positive |-> <<>>, negative |-> <<>>]

\* generate_ml_consensus(papers, research_question): the returned mapping
\* (percentage in tenths, confidence in hundredths), the two locals the
\* verdict is decided from, and whether the except branch ran.
generate_ml_consensus(ps) ==
    IF ps = <<>>
    THEN [ret |-> DegradedConsensus("insufficient_data"),
          positive_percentage |-> NoFrac, avg_confidence |-> NoFrac,
          weighted_scores |-> NoScores, caught |-> FALSE]
    ELSE IF \E i \in 1..Len(ps) : CitationRaises(ps[i])
    THEN [ret |-> DegradedConsensus("error"),
          positive_percentage |-> NoFrac, avg_confidence |-> NoFrac,
          weighted_scores |-> NoScores, caught |-> TRUE]
    ELSE LET pct == PositivePercentage(SumSeq(PositiveScores(ps)),
                                       SumSeq(NegativeScores(ps)))
             conf == AvgConfidence(ps)
         IN  [ret |-> [keys |-> {"consensus", "percentage", "confidence", "total_papers",
                                 "explanation", "ml_insights"},
                       consensus |-> Consensus(pct, conf),
                       percentage |-> RoundFrac(pct, 10),
                       confidence |-> RoundDiv(conf.num, conf.den * 10),
                       total_papers |-> Len(ps),
                       explanation |-> generate_ml_explanation(ps, pct, conf),
                       ml_insights |->
                           [empty |-> FALSE,
                            avg_relevance_score |-> AvgRelevance(ps),
                            high_confidence_papers |-> HighConfidenceCount(ps),
                            recent_papers_ratio |-> Frac(RecentCount(ps), Len(ps)),
                            avg_citation_impact |->
                                Frac(SumSeq([i \in 1..Len(ps) |-> ps[i].citation_count]),
                                     Len(ps))]],
              positive_percentage |-> pct, avg_confidence |-> conf,
              weighted_scores |-> [sentiment_score |->
                                       [i \in 1..Len(ps) |-> ml_sentiment_analysis(ps[i])],
                                   positive |-> PositiveScores(ps),
                                   negative |-> NegativeScores(ps)],
              caught |-> FALSE]

-----------------------------------------------------------------------------
(* services/summarization_service.py: summarize_with_ml (no Gemini key) *)

\* _ml_local_summary compares paper.citation_count with 50 and with 10 only
\* behind the confidence tests; comparing None raises TypeError.
LocalSummaryRaises(p) ==
    IF p.ml_summary_confidence > HIGH_CONFIDENCE_THRESHOLD
    THEN CitationRaises(p)
    ELSE p.ml_summary_confidence > MEDIUM_CONFIDENCE_THRESHOLD /\ CitationRaises(p)

ml_local_summary(p) ==
    [key_finding |-> "first sentence",
     evidence_strength |->
        IF p.ml_summary_confidence > HIGH_CONFIDENCE_THRESHOLD /\ p.citation_count > 50
        THEN "Strong"
        ELSE IF p.ml_summary_confidence > MEDIUM_CONFIDENCE_THRESHOLD
                /\ p.citation_count > 10
        THEN "Moderate" ELSE "Limited",
     relevance |->
        IF p.ml_relevance_score > 600 THEN "High"
        ELSE IF p.ml_relevance_score > 300 THEN "Medium" ELSE "Low"]

\* The summary search_and_analyze_ml stores when summarize_with_ml raised.
FailedSummary ==
    [key_finding |-> "Summary generation failed", evidence_strength |-> "Unknown",
     relevance |-> "Unknown"]

-----------------------------------------------------------------------------
(* services/ml_processor.py: get_paper_clusters *)

RECURSIVE InCluster(_, _)
InCluster(data, c) ==
    IF data = <<>> THEN <<>>
    ELSE IF Head(data).ml_cluster = c
         THEN <<Head(data)>> \o InCluster(Tail(data), c)
         ELSE InCluster(Tail(data), c)

get_paper_clusters(data) ==
    [c \in {data[i].ml_cluster : i \in DOMAIN data} |-> InCluster(data, c)]

\* `not self.paper_vectors` on the matrix fit_transform returned: the truth
\* value of a scipy.sparse matrix is defined for the shape (1, 1) only and
\* raises ValueError for any other shape; the matrix has a row for each paper
\* and one for the query.
TruthValueRaises(matrix) == Len(matrix.rows) > 1

\* np.argsort(similarities)[::-1] over the 0-based indices in left.
RECURSIVE ArgSortDescending(_, _)
ArgSortDescending(similarities, left) ==
    IF left = {} THEN <<>>
    ELSE LET first == CHOOSE i \in left : \A j \in left :
                          \/ similarities[i + 1] > similarities[j + 1]
                          \/ similarities[i + 1] = similarities[j + 1] /\ i >= j
         IN  <<first>> \o ArgSortDescending(similarities, left \ {first})

\* The try block of find_similar_papers, with similarities the answer of
\* cosine_similarity for the paper rows: an empty target slice makes
\* cosine_similarity raise and an index beyond papers_data raises IndexError,
\* and the except branch returns [].
SimilarPairs(self, paper_index, top_k, similarities) ==
    IF paper_index < 0 THEN <<>>
    ELSE LET similar_indices == ArgSortDescending(similarities,
                                                  0..(Len(similarities) - 1))
             others == SelectSeq(similar_indices, LAMBDA idx : idx # paper_index)
             taken == SubSeq(others, 1, Min(Max(top_k, 0), Len(others)))
         IN  IF \E k \in DOMAIN taken : taken[k] >= Len(self.papers_data)
             THEN <<>>
             ELSE [k \in DOMAIN taken |->
                      [paper |-> self.papers_data[taken[k] + 1],
                       score |-> similarities[taken[k] + 1]]]

\* find_similar_papers(paper_index, top_k): what it returns, or that it raised.
find_similar_papers(self, paper_index, top_k, similarities) ==
    IF self.paper_vectors.is_none
    THEN [kind |-> "returned", ret |-> <<>>]
    ELSE IF TruthValueRaises(self.paper_vectors)
    THEN [kind |-> "raised", ret |-> <<>>]
    ELSE IF paper_index >= Len(self.papers_data)
    THEN [kind |-> "returned", ret |-> <<>>]
    ELSE [kind |-> "returned",
          ret |-> SimilarPairs(self, paper_index, top_k, similarities)]

-----------------------------------------------------------------------------
(* services/api_service.py and services/data_manager.py *)

\* What the HTTP request of search_papers can end in.
FetchOutcomes ==
    {[failed |-> TRUE, data |-> <<>>]}
    \cup {[failed |-> FALSE, data |-> l] : l \in FetchedLists}

\* SemanticScholarAPI.search_papers: the parsed papers, or [] when anything
\* raised; no path returns None.
search_papers(outcome) ==
    [is_none |-> FALSE, papers |-> IF outcome.failed THEN <<>> ELSE outcome.data]

\* The mutant of save_session: the log keeps the latest entry only.
SaveSessionLatestOnly(log, search_results) ==
    <<[question |-> search_results.question,
       num_papers |-> Len(search_results.papers),
       consensus |-> search_results.consensus_meter.consensus,
       ml_confidence |-> search_results.consensus_meter.confidence]>>

\* DataManager.save_session: the entry appended to session_data['searches']
\* (without its timestamp).
save_session(log, search_results) ==
    Append(log, [question |-> search_results.question,
                 num_papers |-> Len(search_results.papers),
                 consensus |-> search_results.consensus_meter.consensus,
                 ml_confidence |-> search_results.consensus_meter.confidence])

\* The mutant of get_session_stats: recent_searches is the whole log.
GetSessionStatsWholeLog(log) ==
    IF log = <<>>
    THEN [keys |-> {"total_searches"}, total_searches |-> 0,
          avg_papers_per_search |-> Frac(0, 1), recent_searches |-> <<>>,
          consensus_distribution |-> [c \in {} |-> 0]]
    ELSE [keys |-> {"total_searches", "avg_papers_per_search", "recent_searches",
                    "consensus_distribution"},
          total_searches |-> Len(log),
          avg_papers_per_search |->
              Frac(SumSeq([i \in 1..Len(log) |-> log[i].num_papers]), Len(log)),
          recent_searches |-> log,
          consensus_distribution |->
              [c \in {log[i].consensus : i \in 1..Len(log)} |->
                  Cardinality({i \in 1..Len(log) : log[i].consensus = c})]]

\* DataManager.get_session_stats on session_data['searches'] = log: the
\* keys of the returned mapping and their values (searches[-5:] is the last
\* five entries, or all of them when there are fewer).
get_session_stats(log) ==
    IF log = <<>>
    THEN [keys |-> {"total_searches"}, total_searches |-> 0,
          avg_papers_per_search |-> Frac(0, 1), recent_searches |-> <<>>,
          consensus_distribution |-> [c \in {} |-> 0]]
    ELSE [keys |-> {"total_searches", "avg_papers_per_search", "recent_searches",
                    "consensus_distribution"},
          total_searches |-> Len(log),
          avg_papers_per_search |->
              Frac(SumSeq([i \in 1..Len(log) |-> log[i].num_papers]), Len(log)),
          recent_searches |-> SubSeq(log, Max(1, Len(log) - 4), Len(log)),
          consensus_distribution |->
              [c \in {log[i].consensus : i \in 1..Len(log)} |->
                  Cardinality({i \in 1..Len(log) : log[i].consensus = c})]]

-----------------------------------------------------------------------------
(* core/research_assistant.py *)

\* Questions are sequences of characters.
Questions == {<<>>, <<" ">>, <<"q">>, <<"q", " ">>}

RECURSIVE LStrip(_)
LStrip(q) == IF q # <<>> /\ Head(q) = " " THEN LStrip(Tail(q)) ELSE q

RECURSIVE RStrip(_)
RStrip(q) ==
    IF q # <<>> /\ q[Len(q)] = " " THEN RStrip(SubSeq(q, 1, Len(q) - 1)) ELSE q

\* str.strip()
Strip(q) == RStrip(LStrip(q))

\* The mutant of InvalidQuestion: the question is not stripped.
InvalidQuestionNoStrip(q) == q = <<>>

\* not research_question or not research_question.strip()
InvalidQuestion(q) == q = <<>> \/ Strip(q) = <<>>

\* None as the value of consensus_meter.
NoneMeter ==
    [keys |-> {}, consensus |-> "None", confidence |-> 0, percentage |-> 0,
     total_papers |-> 0, explanation |-> NoExplanation, ml_insights |-> EmptyInsights]

NoClusters == [c \in {} |-> <<>>]

\* The mutant of EmptyResult: the key ml_insights is missing.
EmptyResultNoInsights ==
    [keys |-> {"papers", "consensus_meter"},
     question |-> <<>>, papers |-> <<>>, consensus_meter |-> NoneMeter,
     ml_insights |-> [empty |-> TRUE, paper_clusters |-> NoClusters,
                      avg_relevance |-> Frac(0, 1), high_confidence_count |-> 0,
                      recent_papers_ratio |-> Frac(0, 1)],
     total_found |-> 0]

\* {"papers": [], "consensus_meter": None, "ml_insights": {}}
EmptyResult ==
    [keys |-> {"papers", "consensus_meter", "ml_insights"},
     question |-> <<>>, papers |-> <<>>, consensus_meter |-> NoneMeter,
     ml_insights |-> [empty |-> TRUE, paper_clusters |-> NoClusters,
                      avg_relevance |-> Frac(0, 1), high_confidence_count |-> 0,
                      recent_papers_ratio |-> Frac(0, 1)],
     total_found |-> 0]

\* The mutant of PaperSummaries: a paper left with the default confidence
\* gets no entry.
PaperSummariesSkipUnscored(ps) ==
    SelectSeq([i \in 1..Len(ps) |->
                  [paper |-> ps[i],
                   summary |-> IF LocalSummaryRaises(ps[i]) THEN FailedSummary
                               ELSE ml_local_summary(ps[i])]],
              LAMBDA e : e.paper.ml_summary_confidence # One \div 2)

\* The loop that fills paper_summaries: one entry for each paper, with the
\* placeholder summary where summarize_with_ml raised.
PaperSummaries(ps) ==
    [i \in 1..Len(ps) |->
        [paper |-> ps[i],
         summary |-> IF LocalSummaryRaises(ps[i]) THEN FailedSummary
                     ELSE ml_local_summary(ps[i])]]

\* The fields of the assistant and of its services.
NoCatch == [process_papers |-> FALSE, generate_ml_consensus |-> FALSE,
            summarize |-> FALSE]

\* A call that issues no HTTP request.
NoRequest(question) == [question |-> question, issued |-> FALSE, failed |-> FALSE]

\* MLResearchAssistant.search_and_analyze_ml(research_question) where the
\* request ends in outcome and sklearn answers env: the returned mapping and
\* every field the call leaves changed.  self holds the fields before.
search_and_analyze_ml(question, outcome, env, self) ==
    LET unchanged == [self EXCEPT !.results = EmptyResult, !.caught = NoCatch,
                                  !.given = <<>>]
        issued == [question |-> question, issued |-> TRUE, failed |-> outcome.failed]
    IN  IF InvalidQuestion(question)
        THEN [unchanged EXCEPT !.request = NoRequest(question),
                               !.shown = "provide_a_valid_question"]
        ELSE LET returned == search_papers(outcome)
                 fetched == returned.papers
             IN  IF returned.is_none
                 THEN [unchanged EXCEPT !.request = issued,
                                        !.shown = "api_connection_failed"]
                 ELSE IF Len(fetched) = 0
                 THEN [unchanged EXCEPT !.request = issued,
                                        !.shown = "no_papers_found"]
                 ELSE LET pp == process_papers(fetched, env,
                                    [paper_vectors |-> self.paper_vectors,
                                     papers_data |-> self.papers_data])
                          cm == generate_ml_consensus(pp.papers)
                          paper_summaries == PaperSummaries(pp.papers)
                          summaries == [i \in 1..Len(paper_summaries) |->
                                            paper_summaries[i].summary]
                          res == [keys |-> {"question", "papers", "consensus_meter",
                                            "ml_insights", "total_found"},
                                  question |-> question,
                                  papers |-> paper_summaries,
                                  consensus_meter |-> cm.ret,
                                  ml_insights |->
                                      [empty |-> FALSE,
                                       paper_clusters |-> get_paper_clusters(pp.papers_data),
                                       avg_relevance |-> AvgRelevance(pp.papers),
                                       high_confidence_count |-> HighConfidenceCount(pp.papers),
                                       recent_papers_ratio |->
                                           Frac(RecentCount(pp.papers), Len(pp.papers))],
                                  total_found |-> Len(pp.papers)]
                      IN  [given |-> fetched,
                           papers |-> pp.papers,
                           paper_vectors |-> pp.paper_vectors,
                           papers_data |-> pp.papers_data,
                           lib_calls |-> pp.lib_calls,
                           positive_percentage |-> cm.positive_percentage,
                           avg_confidence |-> cm.avg_confidence,
                           weighted_scores |-> cm.weighted_scores,
                           consensus_meter |-> cm.ret,
                           results |-> res,
                           current_papers |-> pp.papers,
                           current_summaries |-> summaries,
                           chatbot |-> [is_none |-> FALSE, papers |-> pp.papers,
                                        summaries |-> summaries],
                           searches |-> save_session(self.searches, res),
                           request |-> issued,
                           shown |-> "analysis_complete",
                           caught |-> [process_papers |-> pp.fallback,
                                       generate_ml_consensus |-> cm.caught,
                                       summarize |-> \E i \in 1..Len(pp.papers) :
                                                        LocalSummaryRaises(pp.papers[i])]]

\* ChatbotService.chat_with_papers: the fixed message when no papers are
\* loaded, else an answer written from self.papers; the question and the
\* answer are appended to chat_history.
chat_with_papers(bot, history) ==
    IF bot.papers = <<>>
    THEN [reply |-> [kind |-> "no_papers_loaded", about |-> <<>>],
          chat_history |-> history]
    ELSE [reply |-> [kind |-> "answer", about |-> bot.papers],
          chat_history |-> history \o <<"user", "assistant">>]

\* The mutant of chat_with_research: the chatbot is not tested.
ChatWithResearchUnguarded(bot, history) ==
    [reply |-> [kind |-> "answer", about |-> bot.papers],
     chat_history |-> history \o <<"user", "assistant">>]

\* MLResearchAssistant.chat_with_research
chat_with_research(bot, history) ==
    IF bot.is_none
    THEN [reply |-> [kind |-> "please_search_first", about |-> <<>>],
          chat_history |-> history]
    ELSE chat_with_papers(bot, history)

-----------------------------------------------------------------------------
(* The state machine *)

Self ==
    [given |-> given, papers |-> papers, paper_vectors |-> paper_vectors, papers_data |-> papers_data,
     lib_calls |-> lib_calls, positive_percentage |-> positive_percentage,
     avg_confidence |-> avg_confidence, consensus_meter |-> consensus_meter,
     results |-> results, current_papers |-> current_papers,
     current_summaries |-> current_summaries, chatbot |-> chatbot,
     searches |-> searches, caught |-> caught, request |-> request, shown |-> shown,
     weighted_scores |-> weighted_scores]

\* time.time() when the assistant is built: later than REQUEST_DELAY after 0.
Epoch == 100

\* No call of find_similar_papers or of chat_with_research has returned yet.
NothingReturned == [kind |-> "nothing"]

NoEarlierRun ==
    [env |-> [vectorizer_ok |-> TRUE, kmeans_ok |-> TRUE,
              similarities |-> <<>>, labels |-> <<>>],
     papers |-> <<>>]

\* The state after MLResearchAssistant.__init__ (and the services' __init__).
Init ==
    /\ pc = "idle"
    /\ given = <<>>
    /\ papers = <<>>
    /\ paper_vectors = [is_none |-> TRUE, rows |-> <<>>]
    /\ papers_data = <<>>
    /\ lib_calls = NoLibCalls
    /\ positive_percentage = NoFrac
    /\ avg_confidence = NoFrac
    /\ consensus_meter = NoneMeter
    /\ results = EmptyResult
    /\ current_papers = <<>>
    /\ current_summaries = <<>>
    /\ chatbot = [is_none |-> TRUE, papers |-> <<>>, summaries |-> <<>>]
    /\ searches = <<>>
    /\ caught = NoCatch
    /\ request = NoRequest(<<>>)
    /\ shown = "nothing"
    /\ search_calls = 0
    /\ earlier = NoEarlierRun
    /\ weighted_scores = NoScores
    /\ now = Epoch
    /\ last_request_time = 0
    /\ sent = <<>>
    /\ similar_papers = NothingReturned
    /\ chat_reply = NothingReturned
    /\ chat_history = <<>>
    /\ stats = NothingReturned

\* A caller runs ml_processor.process_papers on a fetched list.
CallProcessPapers ==
    /\ pc = "idle"
    /\ \E ps \in FetchedLists : \E env \in Environments(ps) :
         \E pp \in {process_papers(ps, env, [paper_vectors |-> paper_vectors,
                                             papers_data |-> papers_data])} :
             /\ given' = ps
             /\ papers' = pp.papers
             /\ paper_vectors' = pp.paper_vectors
             /\ papers_data' = pp.papers_data
             /\ lib_calls' = pp.lib_calls
             /\ caught' = [caught EXCEPT !.process_papers = pp.fallback]
             /\ earlier' = [env |-> env, papers |-> pp.papers]
    /\ pc' = "processed"
    /\ UNCHANGED <<now, last_request_time, sent, similar_papers, chat_reply,
                   chat_history, stats, positive_percentage, avg_confidence, consensus_meter, results,
                   current_papers, current_summaries, chatbot, searches,
                   request, shown, search_calls, weighted_scores>>

\* The bijections of the cluster ids 0 .. n_clusters - 1.
Renumberings(n_clusters) ==
    {f \in [0..(n_clusters - 1) -> 0..(n_clusters - 1)] :
        \A a, b \in 0..(n_clusters - 1) : a # b => f[a] # f[b]}

\* The answers of sklearn when the list an earlier run returned is processed
\* again with the same query.  The corpus is the same set of texts, so each
\* paper has the similarity it had; KMeans(random_state=42) draws its first
\* centres by row index, so on the same rows it gives the same labels and on
\* reordered rows the clusters can come out under other ids.
ReprocessEnvironments(first, ranked) ==
    LET same_rows == \A i \in DOMAIN ranked : ranked[i].paper_id = i
        again(l) == [vectorizer_ok |-> first.vectorizer_ok,
                     kmeans_ok |-> first.kmeans_ok,
                     similarities |-> [i \in DOMAIN first.similarities |->
                                          first.similarities[ranked[i].paper_id]],
                     labels |-> l]
    IN  IF first.labels = <<>> \/ same_rows
        THEN {again(first.labels)}
        ELSE {again([i \in DOMAIN first.labels |-> f[first.labels[ranked[i].paper_id]]]) :
                f \in Renumberings(NClusters(Len(ranked)))}

\* The caller runs process_papers once more on the list it got back.
CallProcessPapersAgain ==
    /\ pc = "processed"
    /\ \E env \in ReprocessEnvironments(earlier.env, papers) :
         \E pp \in {process_papers(papers, env, [paper_vectors |-> paper_vectors,
                                                 papers_data |-> papers_data])} :
             /\ given' = papers
             /\ papers' = pp.papers
             /\ paper_vectors' = pp.paper_vectors
             /\ papers_data' = pp.papers_data
             /\ lib_calls' = pp.lib_calls
             /\ caught' = [caught EXCEPT !.process_papers = pp.fallback]
    /\ pc' = "reprocessed"
    /\ UNCHANGED <<now, last_request_time, sent, similar_papers, chat_reply,
                   chat_history, stats, positive_percentage, avg_confidence, consensus_meter, results,
                   current_papers, current_summaries, chatbot, searches,
                   request, shown, search_calls, weighted_scores, earlier>>

\* A caller runs summarizer.generate_ml_consensus on the processed list.
CallGenerateConsensus ==
    /\ pc = "processed"
    /\ \E cm \in {generate_ml_consensus(papers)} :
           /\ consensus_meter' = cm.ret
           /\ positive_percentage' = cm.positive_percentage
           /\ avg_confidence' = cm.avg_confidence
           /\ weighted_scores' = cm.weighted_scores
           /\ caught' = [caught EXCEPT !.generate_ml_consensus = cm.caught]
    /\ pc' = "consensus"
    /\ UNCHANGED <<now, last_request_time, sent, similar_papers, chat_reply,
                   chat_history, stats, given, papers, paper_vectors, papers_data, lib_calls, results,
                   current_papers, current_summaries, chatbot, searches,
                   request, shown, search_calls, earlier>>

\* The requests a call with question q issues: none for an invalid question.
Outcomes(q) ==
    IF InvalidQuestion(q) THEN {[failed |-> TRUE, data |-> <<>>]} ELSE FetchOutcomes

\* The whole of search_and_analyze_ml(q) with the request ending in outcome
\* and sklearn answering env.
SearchStep(q, outcome, env) ==
    /\ \E after \in {search_and_analyze_ml(q, outcome, env, Self)} :
             /\ given' = after.given
             /\ papers' = after.papers
             /\ paper_vectors' = after.paper_vectors
             /\ papers_data' = after.papers_data
             /\ lib_calls' = after.lib_calls
             /\ positive_percentage' = after.positive_percentage
             /\ avg_confidence' = after.avg_confidence
             /\ weighted_scores' = after.weighted_scores
             /\ consensus_meter' = after.consensus_meter
             /\ results' = after.results
             /\ current_papers' = after.current_papers
             /\ current_summaries' = after.current_summaries
             /\ chatbot' = after.chatbot
             /\ searches' = after.searches
             /\ caught' = after.caught
             /\ request' = after.request
             /\ shown' = after.shown
             /\ chat_history' = IF after.shown = "analysis_complete" THEN <<>>
                                ELSE chat_history
    /\ search_calls' = search_calls + 1
    /\ pc' = "searched"
    /\ UNCHANGED <<earlier, now, last_request_time, sent, similar_papers, chat_reply,
                   stats>>

\* The user asks a research question.
CallSearch ==
    /\ pc = "idle"
    /\ \E q \in Questions : \E outcome \in Outcomes(q) :
       \E env \in Environments(search_papers(outcome).papers) :
           SearchStep(q, outcome, env)

\* What cosine_similarity can return in find_similar_papers for n paper rows.
TargetSimilarities(n) == {[i \in 1..n |-> One \div 2], [i \in 1..n |-> 100 * i]}

\* A caller runs ml_processor.find_similar_papers, before any list was
\* processed or after one was.
CallFindSimilarPapers ==
    /\ pc \in {"idle", "processed"}
    /\ \E paper_index \in {0, MaxCorpus} : \E top_k \in {1, 3} :
       \E similarities \in TargetSimilarities(Max(Len(paper_vectors.rows) - 1, 0)) :
       \E found \in {find_similar_papers([paper_vectors |-> paper_vectors,
                                           papers_data |-> papers_data],
                                          paper_index, top_k, similarities)} :
           similar_papers' = [kind |-> found.kind, ret |-> found.ret,
                              paper_index |-> paper_index, top_k |-> top_k]
    /\ pc' = "similar"
    /\ UNCHANGED <<given, papers, paper_vectors, papers_data, lib_calls,
                   positive_percentage, avg_confidence, consensus_meter, results,
                   current_papers, current_summaries, chatbot, searches, caught,
                   request, shown, search_calls, weighted_scores, earlier, now,
                   last_request_time, sent, chat_reply, chat_history, stats>>

Next ==
    \/ CallProcessPapers
    \/ CallProcessPapersAgain
    \/ CallGenerateConsensus
    \/ CallSearch
    \/ CallFindSimilarPapers

Spec == Init /\ [][Next]_vars

-----------------------------------------------------------------------------
(* A session: the user searches again and again and clears the history.      *)

\* How many searches a session makes.
MaxSearches == 3

\* What the searches of a session fetch: nothing, or one paper.
SessionLists ==
    {l \in FetchedLists :
        \A i \in DOMAIN l : l[i].title \in {"meta_analysis", "null_citations"} /\ i = 1}

SessionOutcomes(q) ==
    IF InvalidQuestion(q) THEN {[failed |-> TRUE, data |-> <<>>]}
    ELSE {o \in FetchOutcomes : o.data \in SessionLists}

SessionEnvironments(ps) ==
    {env \in Environments(ps) :
        \A i \in DOMAIN env.similarities : env.similarities[i] \in {800, AboveOne}}

\* The user asks one more research question of the same assistant.
SearchAgain ==
    /\ search_calls < MaxSearches
    /\ \E q \in Questions : \E outcome \in SessionOutcomes(q) :
       \E env \in SessionEnvironments(search_papers(outcome).papers) :
           SearchStep(q, outcome, env)

\* The Clear History button of the sidebar: session_data is replaced by an
\* empty one (the other two assignments are to st.session_state).
ClearHistory ==
    /\ pc = "searched"
    /\ searches' = <<>>
    /\ pc' = "cleared"
    /\ UNCHANGED <<now, last_request_time, sent, similar_papers, chat_reply,
                   chat_history, stats, given, papers, paper_vectors, papers_data, lib_calls,
                   positive_percentage, avg_confidence, consensus_meter, results,
                   current_papers, current_summaries, chatbot, caught, request,
                   shown, search_calls, weighted_scores, earlier>>

\* How many questions the user asks of one chatbot.
MaxChats == 2

\* The user sends a question in the chat form.
ChatWithResearch ==
    /\ Len(chat_history) < 2 * MaxChats
    /\ \E answered \in {chat_with_research(chatbot, chat_history)} :
           /\ chat_reply' = answered.reply
           /\ chat_history' = answered.chat_history
    /\ pc' = "chatted"
    /\ UNCHANGED <<given, papers, paper_vectors, papers_data, lib_calls,
                   positive_percentage, avg_confidence, consensus_meter, results,
                   current_papers, current_summaries, chatbot, searches, caught,
                   request, shown, search_calls, weighted_scores, earlier, now,
                   last_request_time, sent, similar_papers, stats>>

NextSession == SearchAgain \/ ClearHistory \/ ChatWithResearch

SpecSession == Init /\ [][NextSession]_vars

-----------------------------------------------------------------------------
(* The consensus table on its own: the if/elif chain of generate_ml_consensus *)
(* applied to a grid of (positive_percentage, avg_confidence).                *)

\* Percentages 0, 0.5, ..., 100.
TablePercentages == {Frac(h, 2) : h \in 0..200}

\* Confidences 0, 0.05, ..., 1 and the neighbours of the two gates.
TableConfidences ==
    {Frac(50 * k, 1) : k \in 0..20} \cup {Frac(c, 1) : c \in {499, 501, 599, 601}}

InitTable ==
    /\ pc = "table_input"
    /\ positive_percentage \in TablePercentages
    /\ avg_confidence \in TableConfidences
    /\ given = <<>>
    /\ papers = <<>>
    /\ paper_vectors = [is_none |-> TRUE, rows |-> <<>>]
    /\ papers_data = <<>>
    /\ lib_calls = NoLibCalls
    /\ consensus_meter = NoneMeter
    /\ results = EmptyResult
    /\ current_papers = <<>>
    /\ current_summaries = <<>>
    /\ chatbot = [is_none |-> TRUE, papers |-> <<>>, summaries |-> <<>>]
    /\ searches = <<>>
    /\ caught = NoCatch
    /\ request = NoRequest(<<>>)
    /\ shown = "nothing"
    /\ search_calls = 0
    /\ earlier = NoEarlierRun
    /\ weighted_scores = NoScores
    /\ now = Epoch
    /\ last_request_time = 0
    /\ sent = <<>>
    /\ similar_papers = NothingReturned
    /\ chat_reply = NothingReturned
    /\ chat_history = <<>>
    /\ stats = NothingReturned

\* The chain decides the consensus from the two locals, and the return
\* statement reports the two locals rounded.
ApplyTable ==
    /\ pc = "table_input"
    /\ pc' = "table_output"
    /\ consensus_meter' =
         [NoneMeter EXCEPT !.consensus = Consensus(positive_percentage, avg_confidence),
                           !.percentage = RoundFrac(positive_percentage, 10),
                           !.confidence = RoundDiv(avg_confidence.num,
                                                   avg_confidence.den * 10)]
    /\ UNCHANGED <<now, last_request_time, sent, similar_papers, chat_reply,
                   chat_history, stats, given, papers, paper_vectors, papers_data, lib_calls,
                   positive_percentage, avg_confidence, results, current_papers,
                   current_summaries, chatbot, searches, caught, request, shown,
                   search_calls, weighted_scores, earlier>>

NextTable == ApplyTable

SpecConsensus == InitTable /\ [][NextTable]_vars

-----------------------------------------------------------------------------
(* _ml_sentiment_analysis on its own, applied to one paper.                   *)

\* What the abstracts mention: nothing, single phrases, a phrase that holds
\* another one, phrases of both lists, every phrase of a list.
SentimentAbstracts ==
    {{}, {"effective"}, {"harmful"}, {"ineffective"}, {"effective", "improves"},
     {"effective", "harmful"}, {"improves", "harmful", "worse"},
     POSITIVE_INDICATORS, NEGATIVE_INDICATORS}

SentimentPapers ==
    {[Paper(1, [title |-> "scored", year |-> 2021,
                abstract |-> [len |-> 150, mentions |-> m],
                citation_count |-> c]) EXCEPT !.ml_relevance_score = r] :
        m \in SentimentAbstracts,
        c \in {0, 50, 200, NoneValue},
        r \in SimilarityValues}

InitSentiment ==
    /\ pc = "sentiment_input"
    /\ papers \in {<<p>> : p \in SentimentPapers}
    /\ given = <<>>
    /\ paper_vectors = [is_none |-> TRUE, rows |-> <<>>]
    /\ papers_data = <<>>
    /\ lib_calls = NoLibCalls
    /\ positive_percentage = NoFrac
    /\ avg_confidence = NoFrac
    /\ consensus_meter = NoneMeter
    /\ results = EmptyResult
    /\ current_papers = <<>>
    /\ current_summaries = <<>>
    /\ chatbot = [is_none |-> TRUE, papers |-> <<>>, summaries |-> <<>>]
    /\ searches = <<>>
    /\ caught = NoCatch
    /\ request = NoRequest(<<>>)
    /\ shown = "nothing"
    /\ search_calls = 0
    /\ earlier = NoEarlierRun
    /\ weighted_scores = NoScores
    /\ now = Epoch
    /\ last_request_time = 0
    /\ sent = <<>>
    /\ similar_papers = NothingReturned
    /\ chat_reply = NothingReturned
    /\ chat_history = <<>>
    /\ stats = NothingReturned

\* The call returns the sentiment of the paper.
SentimentReturns ==
    /\ pc = "sentiment_input"
    /\ ~CitationRaises(papers[1])
    /\ pc' = "sentiment_output"
    /\ weighted_scores' =
         [NoScores EXCEPT !.sentiment_score = <<ml_sentiment_analysis(papers[1])>>]
    /\ UNCHANGED <<now, last_request_time, sent, similar_papers, chat_reply,
                   chat_history, stats, given, papers, paper_vectors, papers_data, lib_calls,
                   positive_percentage, avg_confidence, consensus_meter, results,
                   current_papers, current_summaries, chatbot, searches, caught,
                   request, shown, search_calls, earlier>>

\* The call raises TypeError at min(paper.citation_count / 100, 1.0).
SentimentRaises ==
    /\ pc = "sentiment_input"
    /\ CitationRaises(papers[1])
    /\ pc' = "sentiment_raised"
    /\ UNCHANGED <<now, last_request_time, sent, similar_papers, chat_reply,
                   chat_history, stats, given, papers, paper_vectors, papers_data, lib_calls,
                   positive_percentage, avg_confidence, consensus_meter, results,
                   current_papers, current_summaries, chatbot, searches, caught,
                   request, shown, search_calls, weighted_scores, earlier>>

NextSentiment == SentimentReturns \/ SentimentRaises

SpecSentiment == InitSentiment /\ [][NextSentiment]_vars

-----------------------------------------------------------------------------
(* services/api_service.py: the clock of search_papers.  Times are in tenths  *)
(* of a second.  The assistant's specifications above leave the clock alone.  *)

\* REQUEST_DELAY = 1.2
REQUEST_DELAY == 12

\* time.sleep(10) after a 429
RetryWait == 100

\* How many calls of search_papers are made.
MaxRequestCalls == 3

\* How long the caller waits before it calls search_papers again.
IdleTimes == {0, 5, 30}

\* How long session.get takes to return or to raise (below TIMEOUT = 30 s).
ResponseTimes == {1, 20}

\* What session.get gives: a status code, or an exception.
Responses == {"200", "429", "500", "raised"}

\* How many calls of search_papers have started.
StartedCalls == Cardinality({k \in DOMAIN sent : sent[k].first})

InitRateLimit ==
    /\ pc = "api_idle"
    /\ given = <<>>
    /\ papers = <<>>
    /\ paper_vectors = [is_none |-> TRUE, rows |-> <<>>]
    /\ papers_data = <<>>
    /\ lib_calls = NoLibCalls
    /\ positive_percentage = NoFrac
    /\ avg_confidence = NoFrac
    /\ consensus_meter = NoneMeter
    /\ results = EmptyResult
    /\ current_papers = <<>>
    /\ current_summaries = <<>>
    /\ chatbot = [is_none |-> TRUE, papers |-> <<>>, summaries |-> <<>>]
    /\ searches = <<>>
    /\ caught = NoCatch
    /\ request = NoRequest(<<>>)
    /\ shown = "nothing"
    /\ search_calls = 0
    /\ earlier = NoEarlierRun
    /\ weighted_scores = NoScores
    /\ now = Epoch
    /\ last_request_time = 0
    /\ sent = <<>>
    /\ similar_papers = NothingReturned
    /\ chat_reply = NothingReturned
    /\ chat_history = <<>>
    /\ stats = NothingReturned

\* The variables of the assistant, which search_papers does not touch.
assistantVars ==
    <<given, papers, paper_vectors, papers_data, lib_calls, positive_percentage,
      avg_confidence, consensus_meter, results, current_papers, current_summaries,
      chatbot, searches, caught, request, shown, search_calls, weighted_scores,
      earlier, similar_papers, chat_reply, chat_history, stats>>

\* search_papers is called and runs _rate_limit: it sleeps for what is left
\* of request_delay since last_request_time, then stores the time.
RateLimit ==
    /\ pc = "api_idle"
    /\ StartedCalls < MaxRequestCalls
    /\ \E idle \in IdleTimes :
         LET current_time == now + idle
             time_since_last == current_time - last_request_time
         IN  now' = IF time_since_last < REQUEST_DELAY
                    THEN current_time + (REQUEST_DELAY - time_since_last)
                    ELSE current_time
    /\ last_request_time' = now'
    /\ pc' = "rate_limited"
    /\ UNCHANGED <<sent, assistantVars>>

\* The first session.get of the call.  After a 429 the call goes on to the
\* retry; after anything else it returns (the papers, or [] from the except).
FirstGet ==
    /\ pc = "rate_limited"
    /\ sent' = Append(sent, [at |-> now, first |-> TRUE])
    /\ \E took \in ResponseTimes : \E response \in Responses :
         /\ now' = now + took
         /\ pc' = IF response = "429" THEN "got_429" ELSE "api_idle"
    /\ UNCHANGED <<last_request_time, assistantVars>>

\* time.sleep(10) and the second session.get; whatever it gives, the call
\* returns (a second 429 raises in raise_for_status).
RetryGet ==
    /\ pc = "got_429"
    /\ sent' = Append(sent, [at |-> now + RetryWait, first |-> FALSE])
    /\ \E took \in ResponseTimes : now' = now + RetryWait + took
    /\ pc' = "api_idle"
    /\ UNCHANGED <<last_request_time, assistantVars>>

NextRateLimit == RateLimit \/ FirstGet \/ RetryGet

SpecRateLimit == InitRateLimit /\ [][NextRateLimit]_vars

-----------------------------------------------------------------------------
(* services/data_manager.py: the search log of a long session and its         *)
(* statistics.                                                                *)

\* How many searches with papers the session completes between two clears.
MaxLog == 6

\* The results that search_and_analyze_ml hands to save_session: a question,
\* the papers and the consensus meter.
SavedResults ==
    {[question |-> <<"q">>, papers |-> <<Paper(1, BulkRecord)>>,
      consensus_meter |-> [NoneMeter EXCEPT !.consensus = verdict.consensus,
                                            !.confidence = verdict.confidence]] :
        verdict \in {[consensus |-> "strong_positive", confidence |-> 75],
                     [consensus |-> "error", confidence |-> 0]}}

\* The variables that neither the data manager nor the sidebar touches.
otherVars ==
    <<given, papers, paper_vectors, papers_data, lib_calls, positive_percentage,
      avg_confidence, consensus_meter, results, current_papers, current_summaries,
      chatbot, caught, request, shown, search_calls, weighted_scores, earlier,
      now, last_request_time, sent, similar_papers, chat_reply, chat_history>>

\* A search completes with papers and saves its entry.
SaveSession ==
    /\ Len(searches) < MaxLog
    /\ \E search_results \in SavedResults :
           searches' = save_session(searches, search_results)
    /\ pc' = "saved"
    /\ UNCHANGED <<stats, otherVars>>

\* The sidebar reads the statistics.
GetSessionStats ==
    /\ pc # "stats"
    /\ stats' = get_session_stats(searches)
    /\ pc' = "stats"
    /\ UNCHANGED <<searches, otherVars>>

\* The Clear History button.
ClearLog ==
    /\ searches' = <<>>
    /\ pc' = "cleared"
    /\ UNCHANGED <<stats, otherVars>>

NextStats == SaveSession \/ GetSessionStats \/ ClearLog

SpecStats == Init /\ [][NextStats]_vars

-----------------------------------------------------------------------------
(* Properties *)

\* process_papers has returned for the list given.
Returned == pc \in {"processed", "consensus", "searched"}

\* The four factors of the confidence as the specification states them.
FourFactorSum(p) ==
    p.ml_relevance_score
    + (IF p.citation_count * 10 < 1000 THEN p.citation_count * 10 ELSE 1000)
    + (IF p.abstract.len > 100 THEN 1000 ELSE 500)
    + (IF p.year >= 2015 THEN 1000 ELSE 700)

\* Every paper's sentiment is computed and lies inside the dead zone.
AllInDeadZone(ps) ==
    \A i \in DOMAIN ps :
        /\ ~CitationRaises(ps[i])
        /\ ~(ml_sentiment_analysis(ps[i]) > 100)
        /\ ~(ml_sentiment_analysis(ps[i]) < -100)

\* The decision table of the specification, first match first.
DecisionTable(pct, conf) ==
    IF pct.num >= 70 * pct.den /\ conf.num > 600 * conf.den THEN "strong_positive"
    ELSE IF pct.num >= 55 * pct.den /\ conf.num > 500 * conf.den THEN "moderate_positive"
    ELSE IF pct.num <= 30 * pct.den /\ conf.num > 600 * conf.den THEN "strong_negative"
    ELSE IF pct.num <= 45 * pct.den /\ conf.num > 500 * conf.den THEN "moderate_negative"
    ELSE "mixed"

\* The aggregation of generate_ml_consensus raises on this list.
AggregationRaises(ps) == ps # <<>> /\ \E i \in DOMAIN ps : CitationRaises(ps[i])

\* C1: after process_papers has returned, every paper's relevance score and
\* confidence score lies in [0, 1].
C1_ScoresInUnitInterval ==
    Returned =>
        \A i \in DOMAIN papers :
            /\ papers[i].ml_relevance_score >= 0
            /\ papers[i].ml_relevance_score <= One
            /\ papers[i].ml_summary_confidence >= 0
            /\ papers[i].ml_summary_confidence <= One

\* C2: the returned list is in non-increasing order of relevance score and
\* papers of equal score keep the order they were given in.
C2_RankedStable ==
    Returned =>
        \A i, j \in DOMAIN papers :
            i < j =>
                \/ papers[i].ml_relevance_score > papers[j].ml_relevance_score
                \/ /\ papers[i].ml_relevance_score = papers[j].ml_relevance_score
                   /\ papers[i].paper_id < papers[j].paper_id

\* Two papers of equal similarity went through the sort.
C2_Witness ==
    /\ pc = "processed"
    /\ ~caught.process_papers
    /\ Len(papers) = 2
    /\ papers[1].ml_relevance_score = 800
    /\ papers[2].ml_relevance_score = 800

\* C3: the consensus is the first matching row of the decision table for
\* (positive_percentage, avg_confidence); (72, 0.65) is strong_positive,
\* (72, 0.55) moderate_positive, (48, 0.55) mixed, and every average
\* confidence of at most 0.5 gives mixed.
C3_ConsensusIsDecisionTable ==
    (pc = "table_output" \/ (Returned /\ "percentage" \in consensus_meter.keys)) =>
        /\ consensus_meter.consensus = DecisionTable(positive_percentage, avg_confidence)
        /\ (positive_percentage = Frac(144, 2) /\ avg_confidence = Frac(650, 1))
              => consensus_meter.consensus = "strong_positive"
        /\ (positive_percentage = Frac(144, 2) /\ avg_confidence = Frac(550, 1))
              => consensus_meter.consensus = "moderate_positive"
        /\ (positive_percentage = Frac(96, 2) /\ avg_confidence = Frac(550, 1))
              => consensus_meter.consensus = "mixed"
        /\ avg_confidence.num <= 500 * avg_confidence.den
              => consensus_meter.consensus = "mixed"

\* The chain was applied to (72, 0.65).
C3_Witness ==
    /\ pc = "table_output"
    /\ positive_percentage = Frac(144, 2)
    /\ avg_confidence = Frac(650, 1)
    /\ consensus_meter.consensus = "strong_positive"

\* C4: when every paper of a non-empty list is inside the dead zone, the
\* percentage is exactly 50.0 and the consensus is not "error".
C4_DeadZoneGivesFifty ==
    (pc \in {"consensus", "searched"} /\ papers # <<>> /\ AllInDeadZone(papers)) =>
        /\ positive_percentage = Frac(50, 1)
        /\ "percentage" \in consensus_meter.keys
        /\ consensus_meter.percentage = 500
        /\ consensus_meter.consensus # "error"

\* Two papers inside the dead zone, one of them with a sentiment that is
\* not zero, were aggregated.
C4_Witness ==
    /\ pc = "consensus"
    /\ Len(papers) = 2
    /\ AllInDeadZone(papers)
    /\ \E i \in DOMAIN papers : ml_sentiment_analysis(papers[i]) # 0
    /\ consensus_meter.percentage = 500

\* C5: on the normal path the confidence stored is the mean of the four
\* factors (to the nearest representable value).
C5_ConfidenceIsMeanOfFour ==
    (Returned /\ ~caught.process_papers) =>
        \A i \in DOMAIN papers :
            /\ 4 * papers[i].ml_summary_confidence - FourFactorSum(papers[i]) <= 2
            /\ FourFactorSum(papers[i]) - 4 * papers[i].ml_summary_confidence <= 2

\* Relevance 0.8, 200 citations, abstract of 150 characters, year 2021:
\* confidence 0.95; and a paper of unknown year.
C5_Witness ==
    /\ pc = "processed"
    /\ ~caught.process_papers
    /\ \E i \in DOMAIN papers :
        /\ papers[i].ml_relevance_score = 800
        /\ papers[i].citation_count = 200
        /\ papers[i].abstract.len = 150
        /\ papers[i].year = 2021
        /\ papers[i].ml_summary_confidence = 950
    /\ \E i \in DOMAIN papers : papers[i].year = 0

\* C6: with at most MIN_PAPERS_FOR_CLUSTERING papers every cluster id is 0
\* and KMeans is not run.
C6_SmallListsOneCluster ==
    (Returned /\ Len(given) >= 1 /\ Len(given) <= MIN_PAPERS_FOR_CLUSTERING) =>
        /\ \A i \in DOMAIN papers : papers[i].ml_cluster = 0
        /\ lib_calls.kmeans = <<>>
        /\ lib_calls.n_clusters = 0

\* Four papers were processed on the normal path.
C6_Witness ==
    /\ pc = "processed"
    /\ ~caught.process_papers
    /\ Len(papers) = MIN_PAPERS_FOR_CLUSTERING
    /\ lib_calls.cosine_similarity # <<>>

\* C7: with more than MIN_PAPERS_FOR_CLUSTERING papers every cluster id is
\* in [0, min(MAX_CLUSTERS, N)), none is -1, and KMeans, when it ran, was
\* given exactly the N document rows.
C7_ClusterIdsInRange ==
    (Returned /\ Len(given) > MIN_PAPERS_FOR_CLUSTERING) =>
        /\ \A i \in DOMAIN papers :
            /\ papers[i].ml_cluster >= 0
            /\ papers[i].ml_cluster < Min(MAX_CLUSTERS, Len(given))
            /\ papers[i].ml_cluster # -1
        /\ ~caught.process_papers => lib_calls.kmeans # <<>>
        /\ lib_calls.kmeans # <<>> =>
            /\ Len(lib_calls.kmeans) = Len(given)
            /\ \A k \in DOMAIN lib_calls.kmeans :
                lib_calls.kmeans[k] = [kind |-> "doc", id |-> given[k].paper_id]

\* Five papers were clustered and one of them is in the last cluster.
C7_Witness ==
    /\ pc = "processed"
    /\ Len(papers) = 5
    /\ Len(lib_calls.kmeans) = 5
    /\ \E i \in DOMAIN papers : papers[i].ml_cluster = 2

\* C8: for the empty list process_papers returns it unchanged without any
\* call of the vectorizer or of the similarity, and generate_ml_consensus
\* returns "insufficient_data" with confidence 0.0 and empty insights.
C8_EmptyList ==
    /\ (pc \in {"processed", "consensus"} /\ given = <<>>) =>
        /\ papers = <<>>
        /\ lib_calls.fit_transform = <<>>
        /\ lib_calls.cosine_similarity = <<>>
        /\ paper_vectors.is_none
    /\ (pc = "consensus" /\ papers = <<>>) =>
        /\ consensus_meter.consensus = "insufficient_data"
        /\ consensus_meter.confidence = 0
        /\ consensus_meter.ml_insights.empty

\* Both calls were made on the empty list.
C8_Witness ==
    /\ pc = "consensus"
    /\ given = <<>>
    /\ papers = <<>>
    /\ consensus_meter.consensus = "insufficient_data"

\* C9: when the aggregation of a non-empty list raises, the result is
\* "error" with confidence 0.0 and empty insights, and the search returns
\* the full result with this consensus and every paper.
C9_AggregationErrorIsCaught ==
    (pc \in {"consensus", "searched"} /\ AggregationRaises(papers)) =>
        /\ caught.generate_ml_consensus
        /\ consensus_meter.consensus = "error"
        /\ consensus_meter.confidence = 0
        /\ consensus_meter.ml_insights.empty
        /\ pc = "searched" =>
            /\ results.consensus_meter = consensus_meter
            /\ "total_found" \in results.keys
            /\ Len(results.papers) = Len(given)
            /\ \A i \in DOMAIN papers : results.papers[i].paper = papers[i]

\* A search of two papers ended with the consensus "error".
C9_Witness ==
    /\ pc = "searched"
    /\ Len(results.papers) = 2
    /\ results.consensus_meter.consensus = "error"

\* C10: when process_papers falls back, every paper given is returned in the
\* order given with relevance 0.5, cluster 0 and confidence 0.5, and the
\* search goes on to the consensus and to the summaries.
C10_FallbackKeepsEveryPaper ==
    (Returned /\ caught.process_papers) =>
        /\ Len(papers) = Len(given)
        /\ \A i \in DOMAIN papers :
            papers[i] = [given[i] EXCEPT !.ml_relevance_score = 500,
                                         !.ml_cluster = 0,
                                         !.ml_summary_confidence = 500]
        /\ pc = "searched" =>
            /\ results.consensus_meter.consensus # "None"
            /\ Len(results.papers) = Len(given)
            /\ results.total_found = Len(given)

\* A search whose vectorizer failed went on to aggregate two papers.
C10_Witness ==
    /\ pc = "searched"
    /\ caught.process_papers
    /\ Len(results.papers) = 2
    /\ "percentage" \in results.consensus_meter.keys

\* C11: a search whose HTTP request failed takes the branch "API connection
\* failed" and a search whose request returned zero papers takes the branch
\* "No papers found".
C11_FetchFailureIsDistinguished ==
    (pc = "searched" /\ request.issued /\ given = <<>>) =>
        /\ request.failed => shown = "api_connection_failed"
        /\ ~request.failed => shown = "no_papers_found"

\* C12: a call with an empty or whitespace-only question issues no request,
\* runs no ML processing, returns the empty result and leaves current_papers,
\* current_summaries, the chatbot, the processor and the history as they were.
C12_InvalidQuestionNoSideEffects ==
    [][(search_calls' = search_calls + 1 /\ Strip(request'.question) = <<>>) =>
          /\ ~request'.issued
          /\ results' = EmptyResult
          /\ lib_calls' = lib_calls
          /\ paper_vectors' = paper_vectors
          /\ papers_data' = papers_data
          /\ current_papers' = current_papers
          /\ current_summaries' = current_summaries
          /\ chatbot' = chatbot
          /\ searches' = searches]_vars

\* A whitespace-only question was asked after a search that found a paper.
C12_Witness ==
    /\ pc = "searched"
    /\ request.question = <<" ">>
    /\ ~request.issued
    /\ current_papers # <<>>
    /\ ~chatbot.is_none
    /\ searches # <<>>

\* C13: a completed search returns every fetched paper exactly once:
\* len(results['papers']) is the number of papers fetched and is
\* results['total_found'], on the fallback path as well.
C13_EveryFetchedPaperOnce ==
    (pc = "searched" /\ shown = "analysis_complete") =>
        /\ Len(results.papers) = Len(given)
        /\ results.total_found = Len(given)
        /\ \A i \in DOMAIN given :
            Cardinality({j \in DOMAIN results.papers :
                            results.papers[j].paper.paper_id = given[i].paper_id}) = 1

\* Two papers were fetched, ML processing fell back, both are in the output.
C13_Witness ==
    /\ pc = "searched"
    /\ Len(given) = 2
    /\ caught.process_papers
    /\ results.total_found = 2
    /\ results.papers[1].paper.paper_id # results.papers[2].paper.paper_id

\* C14: processing the list a first run returned once more, with the same
\* question, gives every paper the same relevance, cluster id and confidence
\* and the same order.
C14_ReprocessingIsIdentical ==
    pc = "reprocessed" => papers = earlier.papers

\* C15: every call of search_and_analyze_ml returns a mapping with the keys
\* papers, consensus_meter and ml_insights: the empty result on the three
\* early returns, and a result with a consensus and insights when the search
\* completes, whichever steps fell back.
C15_ResultIsWellFormed ==
    pc = "searched" =>
        /\ {"papers", "consensus_meter", "ml_insights"} \subseteq results.keys
        /\ shown \in {"provide_a_valid_question", "api_connection_failed",
                      "no_papers_found", "analysis_complete"}
        /\ shown # "analysis_complete" =>
            /\ results.papers = <<>>
            /\ results.consensus_meter = NoneMeter
            /\ results.ml_insights.empty
        /\ shown = "analysis_complete" =>
            /\ results.papers # <<>>
            /\ "consensus" \in results.consensus_meter.keys
            /\ ~results.ml_insights.empty

\* A search in which both ML processing and the consensus fell back.
C15_Witness ==
    /\ pc = "searched"
    /\ shown = "analysis_complete"
    /\ caught.process_papers
    /\ caught.generate_ml_consensus
    /\ "ml_insights" \in results.keys

\* generate_ml_consensus aggregated the list without raising.
Aggregated ==
    /\ pc \in {"consensus", "searched"}
    /\ papers # <<>>
    /\ "percentage" \in consensus_meter.keys

\* C16: a paper adds to the positive bucket only with a sentiment above 0.1,
\* to the negative bucket only with a sentiment below -0.1, to neither in
\* between; its weight is the confidence stored on it, the value that the
\* high-confidence count and avg_confidence use as well.
C16_DeadZoneAndWeights ==
    Aggregated =>
        /\ \A i \in DOMAIN papers :
            LET sentiment == ml_sentiment_analysis(papers[i])
                weight == papers[i].ml_summary_confidence
            IN  /\ sentiment > 100 =>
                    /\ weighted_scores.positive[i] = sentiment * weight
                    /\ weighted_scores.negative[i] = 0
                /\ sentiment < -100 =>
                    /\ weighted_scores.negative[i] = (-sentiment) * weight
                    /\ weighted_scores.positive[i] = 0
                /\ (sentiment >= -100 /\ sentiment <= 100) =>
                    /\ weighted_scores.positive[i] = 0
                    /\ weighted_scores.negative[i] = 0
        /\ avg_confidence =
              Frac(SumSeq([i \in DOMAIN papers |-> papers[i].ml_summary_confidence]),
                   Len(papers))
        /\ consensus_meter.ml_insights.high_confidence_papers =
              Cardinality({i \in DOMAIN papers : papers[i].ml_summary_confidence > 700})

\* A paper at the edge of the dead zone (sentiment 0.1) next to a paper in
\* the negative bucket.
C16_Witness ==
    /\ Aggregated
    /\ \E i, j \in DOMAIN papers :
        /\ ml_sentiment_analysis(papers[i]) = 100
        /\ weighted_scores.positive[i] = 0
        /\ ml_sentiment_analysis(papers[j]) < -100
        /\ weighted_scores.negative[j] > 0

\* C17: when a bucket has weight, positive_percentage is 100 times the
\* positive weight over the weight of both buckets; the reported percentage
\* is in [0, 100], 100 with positive weight only, 0 with negative weight only.
C17_PercentageFormula ==
    Aggregated =>
        LET positive == SumSeq(weighted_scores.positive)
            negative == SumSeq(weighted_scores.negative)
        IN  /\ positive + negative > 0 =>
                positive_percentage = Frac(100 * positive, positive + negative)
            /\ consensus_meter.percentage >= 0
            /\ consensus_meter.percentage <= 100 * 10
            /\ (positive > 0 /\ negative = 0) => consensus_meter.percentage = 100 * 10
            /\ (positive = 0 /\ negative > 0) => consensus_meter.percentage = 0

\* Both buckets have weight and the percentage is strictly inside (0, 100).
C17_Witness ==
    /\ Aggregated
    /\ SumSeq(weighted_scores.positive) > 0
    /\ SumSeq(weighted_scores.negative) > 0
    /\ consensus_meter.percentage > 0
    /\ consensus_meter.percentage < 100 * 10

\* The phrases of a list found in an abstract: those it mentions and those
\* held inside a phrase it mentions.
PhrasesFound(indicators, abstract) ==
    {ind \in indicators :
        \/ ind \in abstract.mentions
        \/ \E longer \in abstract.mentions : <<ind, longer>> \in Inside}

\* C18: the net polarity is twice the positive phrases found minus twice the
\* negative phrases found; the sentiment is tanh of a tenth of the polarity
\* times relevance times (1 + min(citation_count / 100, 1)), so it has the
\* sign of the polarity when the relevance is positive and lies strictly
\* between -1 and 1.
C18_SentimentFormula ==
    pc = "sentiment_output" =>
        LET p == papers[1]
            sentiment == weighted_scores.sentiment_score[1]
            polarity == 2 * Cardinality(PhrasesFound(POSITIVE_INDICATORS, p.abstract))
                        - 2 * Cardinality(PhrasesFound(NEGATIVE_INDICATORS, p.abstract))
            boost == IF p.citation_count * 10 < One THEN p.citation_count * 10 ELSE One
            scaled == polarity * p.ml_relevance_score * (One + boost)
        IN  /\ sentiment = Tanh(RoundDivSigned(scaled, One * 100))
            /\ (p.ml_relevance_score > 0 /\ polarity > 0) => sentiment > 0
            /\ (p.ml_relevance_score > 0 /\ polarity < 0) => sentiment < 0
            /\ polarity = 0 => sentiment = 0
            /\ sentiment > -One
            /\ sentiment < One

\* Every positive phrase, the highest relevance and the capped citation
\* boost: the largest sentiment there is.
C18_Witness ==
    /\ pc = "sentiment_output"
    /\ papers[1].abstract.mentions = POSITIVE_INDICATORS
    /\ papers[1].ml_relevance_score = AboveOne
    /\ papers[1].citation_count = 200
    /\ weighted_scores.sentiment_score[1] = One - 1

\* C19: after a search that reached ML processing the processor holds that
\* search's papers and that search's N + 1 vectors, and the clusters reported
\* group exactly that search's papers.
C19_ProcessorStateIsLatestSearch ==
    (pc = "searched" /\ shown = "analysis_complete") =>
        /\ papers_data = papers
        /\ ~paper_vectors.is_none
        /\ paper_vectors.rows = PaperTexts(given)
        /\ \A c \in DOMAIN results.ml_insights.paper_clusters :
              Range(results.ml_insights.paper_clusters[c]) \subseteq Range(papers)
        /\ \A i \in DOMAIN papers :
              \E c \in DOMAIN results.ml_insights.paper_clusters :
                  papers[i] \in Range(results.ml_insights.paper_clusters[c])

\* C20: a search that completes with a paper appends one entry (question,
\* paper count, verdict, confidence) at the end of the log and leaves the
\* earlier entries as they are, a search that returns the empty result
\* leaves the log as it is, and nothing but Clear History empties it.
C20_HistoryIsAppendOnly ==
    [][/\ (search_calls' = search_calls + 1 /\ results'.papers # <<>>) =>
              searches' = Append(searches,
                                 [question |-> results'.question,
                                  num_papers |-> Len(results'.papers),
                                  consensus |-> results'.consensus_meter.consensus,
                                  ml_confidence |-> results'.consensus_meter.confidence])
       /\ (search_calls' = search_calls + 1 /\ results'.papers = <<>>) =>
              searches' = searches
       /\ (search_calls' = search_calls /\ searches' # searches) =>
              (pc' = "cleared" /\ searches' = <<>>)
       /\ Len(searches') < Len(searches) => pc' = "cleared"]_vars

\* Two searches were logged and a third one found nothing.
C20_Witness ==
    /\ pc = "searched"
    /\ search_calls = 3
    /\ Len(searches) = 2
    /\ results.papers = <<>>
    /\ searches[1].num_papers = 1

\* The fields of a paper that the fetch fills in.
BibliographicFields(p) ==
    [paper_id |-> p.paper_id, title |-> p.title, year |-> p.year,
     abstract |-> p.abstract, citation_count |-> p.citation_count]

\* C21: process_papers returns the papers it was given, each with the
\* bibliographic fields it had, in some order; generate_ml_consensus leaves
\* the list and every field of every paper as they were.
C21_BibliographicFieldsUnchanged ==
    [][/\ pc' \in {"processed", "reprocessed"} =>
              /\ Len(papers') = Len(given')
              /\ \A i \in DOMAIN given' : \E j \in DOMAIN papers' :
                     BibliographicFields(papers'[j]) = BibliographicFields(given'[i])
       /\ pc' = "consensus" => papers' = papers]_vars

\* Two papers were ranked in the other order and the consensus was computed.
C21_Witness ==
    /\ pc = "consensus"
    /\ Len(papers) = 2
    /\ papers[1].paper_id = 2
    /\ papers[1].ml_relevance_score > 0

\* C22: the verdict of a returned result is the one the decision table gives
\* for the percentage (in tenths) and the confidence (in hundredths) that the
\* same result reports.
C22_VerdictAgreesWithReportedFields ==
    (pc = "table_output" \/ (Returned /\ "percentage" \in consensus_meter.keys)) =>
        consensus_meter.consensus =
            DecisionTable(Frac(consensus_meter.percentage, 10),
                          Frac(consensus_meter.confidence * 10, 1))

\* C23: after process_papers has ranked a list, row k of the stored vectors
\* is the vector of the paper at place k of the stored list.
C23_RowsFollowRankedList ==
    (pc = "processed" /\ given # <<>> /\ ~caught.process_papers) =>
        /\ Len(paper_vectors.rows) = Len(papers_data) + 1
        /\ \A k \in DOMAIN papers_data : paper_vectors.rows[k] = DocRow(papers_data[k])

\* C26: any two consecutive requests of one SemanticScholarAPI are started
\* at least REQUEST_DELAY apart, and a call sends at most one retry.
C26_RequestsAreSpaced ==
    /\ \A k \in 2..Len(sent) : sent[k].at - sent[k - 1].at >= REQUEST_DELAY
    /\ \A k \in 2..Len(sent) : ~sent[k].first => sent[k - 1].first

\* C25: a paper with relevance above 0 whose abstract holds one phrase of
\* NEGATIVE_INDICATORS and no other phrase has net polarity -2 and a
\* negative sentiment; one phrase of POSITIVE_INDICATORS gives +2 and a
\* positive sentiment.
C25_SinglePhraseDecidesPolarity ==
    (pc = "sentiment_output" /\ papers[1].ml_relevance_score > 0) =>
        \A phrase \in POSITIVE_INDICATORS \cup NEGATIVE_INDICATORS :
            papers[1].abstract.mentions = {phrase} =>
                IF phrase \in NEGATIVE_INDICATORS
                THEN /\ NetPolarity(papers[1]) = -2
                     /\ weighted_scores.sentiment_score[1] < 0
                ELSE /\ NetPolarity(papers[1]) = 2
                     /\ weighted_scores.sentiment_score[1] > 0

\* C24: the explanation of a returned result says "positive evidence" only
\* with the verdict strong_positive, "negative evidence" only with
\* strong_negative, and "mixed results" with the three other verdicts.
C24_ExplanationAgreesWithVerdict ==
    (pc \in {"consensus", "searched"} /\ "explanation" \in consensus_meter.keys) =>
        /\ consensus_meter.explanation.says = "positive evidence"
              => consensus_meter.consensus = "strong_positive"
        /\ consensus_meter.explanation.says = "negative evidence"
              => consensus_meter.consensus = "strong_negative"
        /\ consensus_meter.consensus \in {"moderate_positive", "moderate_negative", "mixed"}
              => consensus_meter.explanation.says = "mixed results"

\* positive_score - negative_score as the specification counts it.
PolarityFound(abstract) ==
    2 * Cardinality(PhrasesFound(POSITIVE_INDICATORS, abstract))
    - 2 * Cardinality(PhrasesFound(NEGATIVE_INDICATORS, abstract))

\* C29: a paper with relevance 0 has sentiment exactly 0, whatever its
\* abstract says and however often it is cited, and so is in neither bucket;
\* a paper with the fallback relevance 0.5 is outside the dead zone only with
\* a net polarity of 2 or more in size, and with exactly 2 only if it has
\* citations.
C29_ZeroRelevanceIsNeutral ==
    pc = "sentiment_output" =>
        LET p == papers[1]
            sentiment == weighted_scores.sentiment_score[1]
            outside == sentiment > One \div 10 \/ sentiment < -(One \div 10)
            size == IF PolarityFound(p.abstract) >= 0 THEN PolarityFound(p.abstract)
                    ELSE -PolarityFound(p.abstract)
        IN  /\ p.ml_relevance_score = 0 => (sentiment = 0 /\ ~outside)
            /\ (p.ml_relevance_score = One \div 2 /\ outside) =>
                   /\ size >= 2
                   /\ size = 2 => p.citation_count > 0

\* A paper with relevance 0, every positive phrase and 200 citations was
\* scored 0.
C29_Witness ==
    /\ pc = "sentiment_output"
    /\ papers[1].ml_relevance_score = 0
    /\ papers[1].abstract.mentions = POSITIVE_INDICATORS
    /\ papers[1].citation_count = 200
    /\ weighted_scores.sentiment_score = <<0>>

\* The sum of the values of a mapping with a finite domain.
RECURSIVE SumOver(_, _)
SumOver(f, keys) ==
    IF keys = {} THEN 0
    ELSE LET k == CHOOSE x \in keys : TRUE IN f[k] + SumOver(f, keys \ {k})

\* C30: get_session_stats reports as total_searches the number of searches
\* saved since the last clear, and exactly {'total_searches': 0} when there
\* is none; the counts of consensus_distribution sum to total_searches;
\* recent_searches is the last min(5, total_searches) entries of the log in
\* their order.
C30_SessionStats ==
    [][/\ pc' = "saved" =>
              get_session_stats(searches').total_searches
                  = get_session_stats(searches).total_searches + 1
       /\ pc' = "cleared" => get_session_stats(searches').total_searches = 0
       /\ pc' = "stats" =>
              /\ stats'.total_searches = Len(searches)
              /\ searches = <<>> => stats'.keys = {"total_searches"}
              /\ searches # <<>> =>
                    /\ SumOver(stats'.consensus_distribution,
                               DOMAIN stats'.consensus_distribution)
                           = stats'.total_searches
                    /\ Len(stats'.recent_searches) = Min(5, stats'.total_searches)
                    /\ \A k \in 1..Len(stats'.recent_searches) :
                           stats'.recent_searches[k] =
                               searches[Len(searches) - Len(stats'.recent_searches) + k]]_vars

\* The statistics of a log of six searches with two different verdicts.
C30_Witness ==
    /\ pc = "stats"
    /\ stats.total_searches = 6
    /\ Len(stats.recent_searches) = 5
    /\ Cardinality(DOMAIN stats.consensus_distribution) >= 2

\* C27: find_similar_papers returns, and what it returns holds no pair with
\* the target paper, at most top_k pairs, the scores in non-increasing
\* order, and nothing at all when no list was processed or paper_index is
\* not an index of the stored list.
C27_SimilarPapersAreOthers ==
    pc = "similar" =>
        LET ret == similar_papers.ret
            valid == similar_papers.paper_index \in 0..(Len(papers_data) - 1)
        IN  /\ similar_papers.kind = "returned"
            /\ Len(ret) <= Max(similar_papers.top_k, 0)
            /\ \A k \in 2..Len(ret) : ret[k - 1].score >= ret[k].score
            /\ valid => \A k \in DOMAIN ret :
                            ret[k].paper # papers_data[similar_papers.paper_index + 1]
            /\ (paper_vectors.is_none \/ ~valid) => ret = <<>>

\* C28: a search that returns the empty result leaves current_papers,
\* current_summaries and the chatbot as they were; a chatbot exists only
\* from the first search that completed with papers on, and holds that
\* search's papers; chat_with_research answers from the chatbot's papers,
\* which are those of the last search that completed with papers, and gives
\* the fixed message while there is no chatbot.
C28_EmptySearchKeepsChat ==
    [][/\ search_calls = 0 => chatbot.is_none
       /\ (search_calls' = search_calls + 1 /\ results'.papers = <<>>) =>
              /\ current_papers' = current_papers
              /\ current_summaries' = current_summaries
              /\ chatbot' = chatbot
              /\ chat_history' = chat_history
       /\ (search_calls' = search_calls + 1 /\ results'.papers # <<>>) =>
              /\ current_papers' = [i \in DOMAIN results'.papers |-> results'.papers[i].paper]
              /\ ~chatbot'.is_none
              /\ chatbot'.papers = current_papers'
       /\ search_calls' = search_calls => chatbot' = chatbot
       /\ pc' = "chatted" =>
              IF chatbot.is_none
              THEN chat_reply'.kind = "please_search_first"
              ELSE /\ chat_reply'.kind = "answer"
                   /\ chat_reply'.about = current_papers
                   /\ current_papers # <<>>]_vars

\* The last search returned the empty result and the chat answered about
\* the papers of an earlier search.
C28_Witness ==
    /\ pc = "chatted"
    /\ search_calls >= 2
    /\ results.papers = <<>>
    /\ chat_reply.kind = "answer"
    /\ chat_reply.about # <<>>

====
